---- MODULE Spec2Model ----
(***************************************************************************)
(* BetweenLines (src/app.py): the WhatsApp export parser, the heuristic    *)
(* role classifier, the remote classifier adapter, the percentage report   *)
(* and the web and Telegram handlers that drive them.                      *)
(*                                                                         *)
(* Text is modelled by what the code reads of it.  A message body is a     *)
(* sequence of one-character strings, so that `in`, split(), lower() and   *)
(* the regular expression of the trouble rule are computed on it; the      *)
(* state holds the text and CharsOf gives its characters.  An              *)
(* export line is a record of the fields the two header patterns capture.  *)
(* A timestamp is the number of seconds since 2000-01-01 00:00:00.         *)
(***************************************************************************)
EXTENDS Integers, Sequences, FiniteSets, TLC

VARIABLES
  file,            \* parse_whatsapp_chat: the lines of the file being read
  parsed,          \* parse_whatsapp_chat: what the call produced
  messages,        \* the messages handed to the classifier
  person_a,        \* the first selected participant (you)
  person_b,        \* the second selected participant (them)
  idx,             \* fallback_scores: the index of the next message of the loop
  scores,          \* the counters: participant -> role key -> count
  last_timestamp,  \* fallback_scores: timestamp of the previous message, or None
  last_sender,     \* fallback_scores: sender of the previous message, or None
  last_msg,        \* fallback_scores: body of the previous message, or None
  raised,          \* the exception that ended the call, "" when none
  caller,          \* the handler that classifies: select_identity or bot_callback
  pc,              \* the position of that handler
  reply,           \* calculate_scores: what requests.post produced
  roles,           \* the role entries of the report built so far
  uploads,         \* web: the files of the uploads directory, by file name
  tmpdirs,         \* web: the directories tempfile.mkdtemp() has made
  page,            \* web: the page each user's browser shows
  sent,            \* web: the content each user uploaded last
  requests,        \* the number of requests each user has made
  lastCall,        \* the arguments of the last call of calculate_scores
  user_data,       \* bot: context.user_data of the conversation
  keyboards        \* bot: the inline keyboards of the conversation's messages

----------------------------------------------------------------------------
(* Characters and bodies *)

\* the characters of the texts that occur in the model: message bodies,
\* participant names, role keys and the lines of the remote replies
CharsOf(text) ==
  CASE text = "Hi" -> <<"H", "i">>
    [] text = "hey lol" -> <<"h", "e", "y", " ", "l", "o", "l">>
    [] text = "Why are you always like this?" ->
         <<"W","h","y"," ","a","r","e"," ","y","o","u"," ","a","l","w","a","y","s",
           " ","l","i","k","e"," ","t","h","i","s","?">>
    [] text = "do you know why?" ->
         <<"d","o"," ","y","o","u"," ","k","n","o","w"," ","w","h","y","?">>
    [] text = "Sure... love you too" ->
         <<"S","u","r","e",".",".","."," ","l","o","v","e"," ","y","o","u"," ",
           "t","o","o">>
    [] text = "Alice" ->
         <<"A","l","i","c","e">>
    [] text = "Bob" ->
         <<"B","o","b">>
    [] text = "Carol" ->
         <<"C","a","r","o","l">>
    [] text = "starter" ->
         <<"s","t","a","r","t","e","r">>
    [] text = "snubber" ->
         <<"s","n","u","b","b","e","r">>
    [] text = "romantic" ->
         <<"r","o","m","a","n","t","i","c">>
    [] text = "trouble" ->
         <<"t","r","o","u","b","l","e">>
    [] text = "fault" ->
         <<"f","a","u","l","t">>
    [] text = "listener" ->
         <<"l","i","s","t","e","n","e","r">>
    [] text = "joker" ->
         <<"j","o","k","e","r">>
    [] text = "Alice:" ->
         <<"A","l","i","c","e",":">>
    [] text = "Bob:" ->
         <<"B","o","b",":">>
    [] text = "starter=5, snubber=3" ->
         <<"s","t","a","r","t","e","r","=","5",","," ","s","n","u","b","b","e","r","=","3">>
    [] text = "Romantic = 2, fault=x, listener=4" ->
         <<"R","o","m","a","n","t","i","c"," ","="," ","2",","," ","f","a","u","l","t","=","x",","," ","l","i","s","t","e","n","e","r","=","4">>
    [] text = "Alice: starter=5, joker=1" ->
         <<"A","l","i","c","e",":"," ","s","t","a","r","t","e","r","=","5",","," ","j","o","k","e","r","=","1">>
    [] text = "starter=1=2" ->
         <<"s","t","a","r","t","e","r","=","1","=","2">>
    [] text = "I cannot rate this chat." ->
         <<"I"," ","c","a","n","n","o","t"," ","r","a","t","e"," ","t","h","i","s"," ","c","h","a","t",".">>
    [] text = "" -> <<>>

Chars(body) == {body[i] : i \in 1..Len(body)}

Upper == <<"A","B","C","D","E","F","G","H","I","J","K","L","M",
           "N","O","P","Q","R","S","T","U","V","W","X","Y","Z">>
Lower == <<"a","b","c","d","e","f","g","h","i","j","k","l","m",
           "n","o","p","q","r","s","t","u","v","w","x","y","z">>

LowerOf == [u \in Chars(Upper) |-> Lower[CHOOSE i \in 1..Len(Upper) : Upper[i] = u]]

\* str.lower() on one character
LowerChar(c) == IF c \in DOMAIN LowerOf THEN LowerOf[c] ELSE c

\* str.lower()
ToLower(body) == [i \in 1..Len(body) |-> LowerChar(body[i])]

\* `word in body` for strings: word occurs as a contiguous substring
Contains(body, word) ==
  \E b \in {body} : \E i \in 1..(Len(b) - Len(word) + 1) :
    \A j \in 1..Len(word) : b[i + j - 1] = word[j]

IsSpace(c) == c = " "

\* len(body.split()): the number of maximal runs of non-whitespace
SplitCount(body) ==
  Cardinality({i \in 1..Len(body) :
                 /\ ~IsSpace(body[i])
                 /\ (i = 1 \/ IsSpace(body[i - 1]))})

----------------------------------------------------------------------------
(* datetime.strptime *)

IsLeap(y) == (y % 4 = 0) /\ ((y % 100 # 0) \/ (y % 400 = 0))

DaysInMonth(m, y) ==
  IF m = 2 THEN (IF IsLeap(y) THEN 29 ELSE 28)
  ELSE IF m \in {4, 6, 9, 11} THEN 30 ELSE 31

\* days from 0001-01-01 to the first day of year y
DaysBeforeYear(y) ==
  365 * (y - 1) + ((y - 1) \div 4) - ((y - 1) \div 100) + ((y - 1) \div 400)

RECURSIVE DaysBeforeMonth(_, _)
DaysBeforeMonth(m, y) ==
  IF m = 1 THEN 0 ELSE DaysBeforeMonth(m - 1, y) + DaysInMonth(m - 1, y)

EpochYear == 2000

\* the datetime (year, month, day, hour24, minute, second) as seconds
Seconds(y, m, d, hh, mi, ss) ==
  (((DaysBeforeYear(y) - DaysBeforeYear(EpochYear))
      + DaysBeforeMonth(m, y) + (d - 1)) * 24 + hh) * 3600 + mi * 60 + ss

\* %I with %p: the 12-hour clock to the 24-hour clock
Hour24(hour, ampm) ==
  IF ToLower(ampm) = <<"a", "m">>
  THEN (IF hour = 12 THEN 0 ELSE hour)
  ELSE (IF hour = 12 THEN 12 ELSE hour + 12)

\* %y: a two-digit year, 69..99 in the 1900s and 0..68 in the 2000s
Year2(yy) == IF yy >= 69 THEN 1900 + yy ELSE 2000 + yy

ValidClock(l) ==
  /\ l.hour \in 1..12
  /\ l.minute \in 0..59
  /\ ToLower(l.ampm) \in {<<"a", "m">>, <<"p", "m">>}

ValidDate(d, m, y) ==
  /\ y \in 1..9999
  /\ m \in 1..12
  /\ d \in 1..DaysInMonth(m, y)

----------------------------------------------------------------------------
(* parse_whatsapp_chat *)

\* r'^(\d{1,2}/\d{1,2}/\d{4}), (\d{1,2}:\d{2}\s*[ap]m) - (.+?): (.+)', IGNORECASE
MatchDash(l) ==
  /\ l.shape = "dash"
  /\ l.n1 \in 0..99 /\ l.n2 \in 0..99
  /\ l.ydigits = 4
  /\ l.hour \in 0..99 /\ l.minute \in 0..99
  /\ ToLower(l.ampm) \in {<<"a", "m">>, <<"p", "m">>}
  /\ l.sender # "" /\ l.body # ""

\* r'^\[(\d{1,2}/\d{1,2}/\d{2,4}, \d{1,2}:\d{2}:\d{2} [APM]{2})\] (.+?): (.+)'
MatchBracket(l) ==
  /\ l.shape = "bracket"
  /\ l.n1 \in 0..99 /\ l.n2 \in 0..99
  /\ l.ydigits \in 2..4
  /\ l.hour \in 0..99 /\ l.minute \in 0..99 /\ l.second \in 0..99
  /\ l.spaces = 1
  /\ Len(l.ampm) = 2 /\ Chars(l.ampm) \subseteq {"A", "P", "M"}
  /\ l.sender # "" /\ l.body # ""

\* strptime(timestamp_str, '%d/%m/%Y, %I:%M %p'): the whitespace of the format
\* needs at least one whitespace character between the minutes and am/pm
StrptimeDash(l) ==
  IF /\ ValidDate(l.n1, l.n2, l.year)
     /\ ValidClock(l)
     /\ l.spaces >= 1
  THEN [ok |-> TRUE,
        timestamp |-> Seconds(l.year, l.n2, l.n1, Hour24(l.hour, l.ampm), l.minute, 0)]
  ELSE [ok |-> FALSE, timestamp |-> 0]

\* strptime(timestamp_str, '%m/%d/%y, %I:%M:%S %p'): %y reads two digits only
StrptimeBracket(l) ==
  IF /\ l.ydigits = 2
     /\ ValidDate(l.n2, l.n1, Year2(l.year))
     /\ ValidClock(l)
     /\ l.second \in 0..59
  THEN [ok |-> TRUE,
        timestamp |-> Seconds(Year2(l.year), l.n1, l.n2, Hour24(l.hour, l.ampm),
                              l.minute, l.second)]
  ELSE [ok |-> FALSE, timestamp |-> 0]

Message(ts, sender, body) == [timestamp |-> ts, sender |-> sender, message |-> body]

\* what one iteration of the loop over the lines adds: a sequence of 0 or 1 messages
ParseLine(l) ==
  IF MatchDash(l)
  THEN (IF StrptimeDash(l).ok
        THEN <<Message(StrptimeDash(l).timestamp, l.sender, l.body)>>
        ELSE <<>>)
  ELSE IF MatchBracket(l)
  THEN (IF StrptimeBracket(l).ok
        THEN <<Message(StrptimeBracket(l).timestamp, l.sender, l.body)>>
        ELSE <<>>)
  ELSE <<>>

RECURSIVE ParseLines(_)
ParseLines(lines) ==
  IF lines = <<>> THEN <<>>
  ELSE ParseLines(SubSeq(lines, 1, Len(lines) - 1)) \o ParseLine(lines[Len(lines)])

Senders(msgs) == {msgs[i].sender : i \in 1..Len(msgs)}

TooFewAcceptsOne(senders) == Cardinality(senders) < 1

\* len(participants) < 2
TooFew(senders) == Cardinality(senders) < 2

NoCall == [raised |-> "not called", messages |-> <<>>, participants |-> {}]

\* lines 31-32: messages = [], participants = set()
ParseStart == [messages |-> <<>>, participants |-> {}]

\* line 43: the line matches one of the two header patterns
HeaderMatch(l) == MatchDash(l) \/ MatchBracket(l)

\* line 52: strptime with the format of the pattern that matched
Strptime(l) == IF MatchDash(l) THEN StrptimeDash(l) ELSE StrptimeBracket(l)

ParseStepAddsOnMatch(st, l) ==
  IF ~HeaderMatch(l) THEN st
  ELSE IF Strptime(l).ok
  THEN [messages |-> Append(st.messages, Message(Strptime(l).timestamp, l.sender, l.body)),
        participants |-> st.participants \cup {l.sender}]
  ELSE [st EXCEPT !.participants = @ \cup {l.sender}]

\* lines 36-60, one iteration: messages.append and participants.add both follow
\* strptime inside the try, and its ValueError skips both
ParseStep(st, l) ==
  IF ~HeaderMatch(l) THEN st
  ELSE IF Strptime(l).ok
  THEN [messages |-> Append(st.messages, Message(Strptime(l).timestamp, l.sender, l.body)),
        participants |-> st.participants \cup {l.sender}]
  ELSE st

\* the loop over the lines, in the order of the file
RECURSIVE ParseLoop(_)
ParseLoop(lines) ==
  IF lines = <<>> THEN ParseStart
  ELSE ParseStep(ParseLoop(SubSeq(lines, 1, Len(lines) - 1)), lines[Len(lines)])

\* the participants are a set turned into a list: their order is not modelled
parse_whatsapp_chat(lines) ==
  LET end == ParseLoop(lines)
  IN IF TooFew(end.participants)
     THEN [raised |-> "ValueError", messages |-> <<>>, participants |-> {}]
     ELSE [raised |-> "", messages |-> end.messages, participants |-> end.participants]

----------------------------------------------------------------------------
(* fallback_scores: the heuristic classifier *)

RoleKeys == <<"starter", "snubber", "romantic", "trouble", "fault", "listener", "joker">>

RoleSet(keys) == {keys[i] : i \in 1..Len(keys)}

ZeroCounters(keys) == [r \in RoleSet(keys) |-> 0]

\* {pa: {...}, pb: {...}}: one entry when the two names are equal
ZeroScores(pa, pb, keys) ==
  [p \in {pa, pb} |-> ZeroCounters(keys)]

HOUR == 3600

\* the characters of the emoji literals as the source file holds them
EmojiHeart == <<"U+201A", "U+00F9", "U+00A7", "U+00D4", "U+220F", "U+00E8">>
EmojiSmiling == <<"U+F8FF", "U+00FC", "U+2022", "U+221E">>
EmojiKiss == <<"U+F8FF", "U+00FC", "U+00F2", "U+00F2">>
EmojiJoy == <<"U+F8FF", "U+00FC", "U+00F2", "U+00C7">>
EmojiRofl == <<"U+F8FF", "U+00FC", "U+00A7", "U+00A3">>

\* str.lower() beyond ASCII, for the characters above
LowerAny(c) ==
  IF c = "U+00D4" THEN "U+00F4"
  ELSE IF c = "U+00C7" THEN "U+00E7"
  ELSE LowerChar(c)

LowerBody(body) == [i \in 1..Len(body) |-> LowerAny(body[i])]

ContainsAny(body, words) == \E b \in {body} : \E w \in words : Contains(b, w)

\* None is <<>>, a value v is <<v>>
None == <<>>
Some(v) == <<v>>

\* last_timestamp and (timestamp - last_timestamp) >= timedelta(hours=8)
StarterRule(prev_timestamp, timestamp) ==
  /\ prev_timestamp # None
  /\ timestamp - prev_timestamp[1] >= 8 * HOUR

\* last_sender and last_sender != sender
OtherSenderBefore(prev_sender, sender) ==
  /\ prev_sender # None
  /\ prev_sender[1] # ""
  /\ prev_sender[1] # sender

YesNoMaybe ==
  { <<"y", "e", "s">>, <<"n", "o">>, <<"m", "a", "y", "b", "e">> }

Bool2Int(b) == IF b THEN 1 ELSE 0

SnubberBumpsAtSixHours(prev_timestamp, prev_sender, prev_msg, msg) ==
  IF OtherSenderBefore(prev_sender, msg.sender)
  THEN Bool2Int(msg.timestamp - prev_timestamp[1] >= 6 * HOUR)
       + Bool2Int(SplitCount(CharsOf(msg.message)) < 4)
       + Bool2Int(/\ prev_msg # None /\ prev_msg[1] # ""
                  /\ Contains(CharsOf(prev_msg[1]), <<"?">>)
                  /\ ~ContainsAny(LowerBody(CharsOf(msg.message)), YesNoMaybe))
  ELSE 0

\* the number of times the snubber counter is incremented for msg (lines 140-147)
SnubberBumps(prev_timestamp, prev_sender, prev_msg, msg) ==
  IF OtherSenderBefore(prev_sender, msg.sender)
  THEN Bool2Int(msg.timestamp - prev_timestamp[1] > 6 * HOUR)
       + Bool2Int(SplitCount(CharsOf(msg.message)) < 4)
       + Bool2Int(/\ prev_msg # None /\ prev_msg[1] # ""
                  /\ Contains(CharsOf(prev_msg[1]), <<"?">>)
                  /\ ~ContainsAny(LowerBody(CharsOf(msg.message)), YesNoMaybe))
  ELSE 0

AffectionateWords ==
  { <<"l", "o", "v", "e">>,
    <<"d", "a", "r", "l", "i", "n", "g">>,
    <<"s", "w", "e", "e", "t", "h", "e", "a", "r", "t">> }

RomanticBumps(message) ==
  Bool2Int(ContainsAny(message, {EmojiHeart, EmojiSmiling, EmojiKiss}))
  + Bool2Int(ContainsAny(LowerBody(message), AffectionateWords))

Digits == {"0", "1", "2", "3", "4", "5", "6", "7", "8", "9"}

\* \w
IsWordChar(c) ==
  \/ LowerChar(c) \in Chars(Lower)
  \/ c \in Digits
  \/ c = "_"
  \/ c \in {"U+00F9", "U+00D4", "U+00E8", "U+00FC", "U+00F2", "U+00C7"}

TroubleWords ==
  { <<"s", "u", "r", "e">>, <<"o", "k", "a", "y">>,
    <<"w", "h", "a", "t", "e", "v", "e", "r">> }

\* re.search(r'\b(sure|okay|whatever)\b.*\.{3,}', message, re.IGNORECASE)
TroubleRule(message) ==
  \E w \in TroubleWords : \E i \in 1..(Len(message) - Len(w) + 1) :
    LET end == i + Len(w) - 1
    IN /\ \A j \in 1..Len(w) : LowerAny(message[i + j - 1]) = w[j]
       /\ (i = 1 \/ ~IsWordChar(message[i - 1]))
       /\ (end = Len(message) \/ ~IsWordChar(message[end + 1]))
       /\ \E k \in (end + 1)..(Len(message) - 2) :
            message[k] = "." /\ message[k + 1] = "." /\ message[k + 2] = "."

BlamePhrases ==
  { <<"y", "o", "u", " ", "a", "l", "w", "a", "y", "s">>,
    <<"y", "o", "u", " ", "n", "e", "v", "e", "r">>,
    <<"i", "t", "'", "s", " ", "y", "o", "u", "r", " ", "f", "a", "u", "l", "t">> }

FaultRule(message) == ContainsAny(LowerBody(message), BlamePhrases)

ListenerRule(message) == Contains(message, <<"?">>)

HumorMarkers ==
  { <<"l", "o", "l">>, <<"h", "a", "h", "a">>, EmojiJoy, EmojiRofl }

JokerRule(message) == ContainsAny(LowerBody(message), HumorMarkers)

\* the state of the pass before its first iteration (lines 126-131)
PassStart(pa, pb) ==
  [scores |-> ZeroScores(pa, pb, RoleKeys),
   last_timestamp |-> None, last_sender |-> None, last_msg |-> None,
   raised |-> ""]

\* how many times one iteration increments each counter of the sender
RoleBumps(st, msg) ==
  [r \in RoleSet(RoleKeys) |->
     CASE r = "starter" -> Bool2Int(StarterRule(st.last_timestamp, msg.timestamp))
       [] r = "snubber" -> SnubberBumps(st.last_timestamp, st.last_sender,
                                        st.last_msg, msg)
       [] r = "romantic" -> RomanticBumps(CharsOf(msg.message))
       [] r = "trouble" -> Bool2Int(TroubleRule(CharsOf(msg.message)))
       [] r = "fault" -> Bool2Int(FaultRule(CharsOf(msg.message)))
       [] r = "listener" -> Bool2Int(ListenerRule(CharsOf(msg.message)))
       [] r = "joker" -> Bool2Int(JokerRule(CharsOf(msg.message)))]

\* the only element of a one-element set
Only(S) == CHOOSE x \in S : TRUE

\* one iteration of the loop over the messages (lines 132-171): every
\* scores[sender][role] += 1 it reaches, where a sender that has no entry in
\* scores raises KeyError at the first of them
LoopBody(st, msg) ==
  Only({ IF (\E r \in RoleSet(RoleKeys) : bumps[r] > 0)
            /\ msg.sender \notin DOMAIN st.scores
         THEN [st EXCEPT !.raised = "KeyError"]
         ELSE [scores |-> IF msg.sender \in DOMAIN st.scores
                          THEN [st.scores EXCEPT ![msg.sender] =
                                  [r \in RoleSet(RoleKeys) |-> @[r] + bumps[r]]]
                          ELSE st.scores,
               last_timestamp |-> Some(msg.timestamp),
               last_sender |-> Some(msg.sender),
               last_msg |-> Some(msg.message),
               raised |-> ""]
         : bumps \in {RoleBumps(st, msg)} })

RECURSIVE PassOver(_, _)
PassOver(st, msgs) ==
  IF msgs = <<>> \/ st.raised # "" THEN st
  ELSE PassOver(LoopBody(st, Head(msgs)), Tail(msgs))

\* fallback_scores(messages, person_a, person_b): the counters, or the exception
fallback_scores(msgs, pa, pb) ==
  LET end == PassOver(PassStart(pa, pb), msgs)
  IN IF end.raised # ""
     THEN [raised |-> end.raised, scores |-> <<>>]
     ELSE [raised |-> "", scores |-> end.scores]

----------------------------------------------------------------------------
(* parse_ai_scores: the reply of the remote classifier *)

AIRoleKeys == <<"starter", "snubber", "romantic", "trouble", "fault">>

\* the index of the first sep in cs, 0 when there is none
FirstIndex(cs, sep) ==
  IF \E i \in 1..Len(cs) : cs[i] = sep
  THEN CHOOSE i \in 1..Len(cs) : cs[i] = sep /\ \A j \in 1..(i - 1) : cs[j] # sep
  ELSE 0

\* str.split(sep)
RECURSIVE SplitOn(_, _)
SplitOn(cs, sep) ==
  IF FirstIndex(cs, sep) = 0 THEN <<cs>>
  ELSE <<SubSeq(cs, 1, FirstIndex(cs, sep) - 1)>>
       \o SplitOn(SubSeq(cs, FirstIndex(cs, sep) + 1, Len(cs)), sep)

\* str.strip()
Strip(cs) ==
  LET keep == {i \in 1..Len(cs) : ~IsSpace(cs[i])}
  IN IF keep = {} THEN <<>>
     ELSE SubSeq(cs, CHOOSE i \in keep : \A j \in keep : i <= j,
                     CHOOSE i \in keep : \A j \in keep : i >= j)

DigitValue(c) ==
  CASE c = "0" -> 0 [] c = "1" -> 1 [] c = "2" -> 2 [] c = "3" -> 3 [] c = "4" -> 4
    [] c = "5" -> 5 [] c = "6" -> 6 [] c = "7" -> 7 [] c = "8" -> 8 [] c = "9" -> 9

RECURSIVE DigitsValue(_)
DigitsValue(cs) ==
  IF cs = <<>> THEN 0
  ELSE 10 * DigitsValue(SubSeq(cs, 1, Len(cs) - 1)) + DigitValue(cs[Len(cs)])

\* int(text): an optional sign and decimal digits, ValueError otherwise
ParseInt(cs) ==
  LET signed == Len(cs) > 0 /\ cs[1] \in {"+", "-"}
      digits == IF signed THEN Tail(cs) ELSE cs
  IN IF digits # <<>> /\ Chars(digits) \subseteq Digits
     THEN [ok |-> TRUE,
           value |-> IF signed /\ cs[1] = "-" THEN 0 - DigitsValue(digits)
                     ELSE DigitsValue(digits)]
     ELSE [ok |-> FALSE, value |-> 0]

\* one part of a line (lines 113-121); role, count = part.split('=') raises
\* ValueError unless the part holds exactly one '='
AIPart(st, part) ==
  IF st.raised # "" \/ ~Contains(part, <<"=">>) THEN st
  ELSE IF Len(SplitOn(part, "=")) # 2 THEN [st EXCEPT !.raised = "ValueError"]
  ELSE LET role == LowerBody(Strip(SplitOn(part, "=")[1]))
           count == ParseInt(Strip(SplitOn(part, "=")[2]))
           keys == {k \in DOMAIN st.scores[st.current[1]] : CharsOf(k) = role}
       IN IF count.ok /\ keys # {}
          THEN [st EXCEPT !.scores[st.current[1]][Only(keys)] = count.value]
          ELSE st

RECURSIVE AIParts(_, _)
AIParts(st, parts) ==
  IF parts = <<>> THEN st ELSE AIParts(AIPart(st, Head(parts)), Tail(parts))

\* one line of the reply (lines 105-121)
AILine(st, line, p1, p2) ==
  IF st.raised # "" THEN st
  ELSE IF Contains(line, CharsOf(p1)) /\ Contains(line, <<":">>)
  THEN [st EXCEPT !.current = Some(p1)]
  ELSE IF Contains(line, CharsOf(p2)) /\ Contains(line, <<":">>)
  THEN [st EXCEPT !.current = Some(p2)]
  ELSE IF st.current # None /\ st.current[1] # "" /\ Contains(line, <<"=">>)
  THEN AIParts(st, SplitOn(line, ","))
  ELSE st

RECURSIVE AILines(_, _, _, _)
AILines(st, lines, p1, p2) ==
  IF lines = <<>> THEN st
  ELSE AILines(AILine(st, Strip(CharsOf(Head(lines))), p1, p2), Tail(lines), p1, p2)

\* parse_ai_scores(text, p1, p2), text given as its lines: the counters, which
\* hold the five keys of lines 100-101, or the exception
parse_ai_scores(text, p1, p2) ==
  LET end == AILines([scores |-> ZeroScores(p1, p2, AIRoleKeys),
                      current |-> None, raised |-> ""], text, p1, p2)
  IN IF end.raised # ""
     THEN [raised |-> end.raised, scores |-> <<>>]
     ELSE [raised |-> "", scores |-> end.scores]

----------------------------------------------------------------------------
(* The percentage report: select_identity lines 333-343, bot_callback 435-439 *)

\* round(num / den * 1000) for den > 0: to the nearest integer, ties to even
RoundTenths(num, den) ==
  LET q == (num * 1000) \div den
      r == (num * 1000) % den
  IN IF 2 * r < den THEN q
     ELSE IF 2 * r > den THEN q + 1
     ELSE IF q % 2 = 0 THEN q ELSE q + 1

PercentFloorDiv(count, total) ==
  IF total > 0 THEN ((count \div total) * 100) * 10 ELSE 0

\* round((count / total * 100) if total > 0 else 0, 1), in tenths of a percent
Percent(count, total) ==
  IF total > 0 THEN RoundTenths(count, total) ELSE 0

\* one role entry, or KeyError when a counter is missing
RoleEntry(sc, you, them, role) ==
  IF \/ you \notin DOMAIN sc \/ them \notin DOMAIN sc
     \/ role \notin DOMAIN sc[you] \/ role \notin DOMAIN sc[them]
  THEN [raised |-> "KeyError", role |-> role, you |-> 0, them |-> 0]
  ELSE [raised |-> "", role |-> role,
        you |-> Percent(sc[you][role], sc[you][role] + sc[them][role]),
        them |-> Percent(sc[them][role], sc[you][role] + sc[them][role])]

----------------------------------------------------------------------------
(* Export lines the parser is run on *)

DashLine(d, m, y, hour, minute, spaces, ampm, sender, body) ==
  [shape |-> "dash", n1 |-> d, n2 |-> m, year |-> y, ydigits |-> 4,
   hour |-> hour, minute |-> minute, second |-> 0, spaces |-> spaces,
   ampm |-> ampm, sender |-> sender, body |-> body]

BracketLine(m, d, y, ydigits, hour, minute, second, ampm, sender, body) ==
  [shape |-> "bracket", n1 |-> m, n2 |-> d, year |-> y, ydigits |-> ydigits,
   hour |-> hour, minute |-> minute, second |-> second, spaces |-> 1,
   ampm |-> ampm, sender |-> sender, body |-> body]

\* a line with no header: a continuation line, a system notice, a 24-hour export
TextLine(body) ==
  [shape |-> "text", n1 |-> 0, n2 |-> 0, year |-> 0, ydigits |-> 0,
   hour |-> 0, minute |-> 0, second |-> 0, spaces |-> 0,
   ampm |-> <<>>, sender |-> "", body |-> body]

am == <<"a", "m">>
pm == <<"p", "m">>
AM == <<"A", "M">>
PM == <<"P", "M">>

Hi == "Hi"
HeyLol == "hey lol"

LinePool ==
  { DashLine(1, 2, 2024, 10, 0, 1, am, "Alice", Hi),        \* 01/02/2024, 10:00 am - Alice: Hi
    DashLine(1, 2, 2024, 10, 1, 1, PM, "Bob", HeyLol),      \* 01/02/2024, 10:01 PM - Bob: hey lol
    DashLine(31, 2, 2024, 9, 0, 1, pm, "Carol", Hi),        \* 31/02/2024: no such day
    DashLine(2, 2, 2024, 6, 0, 0, pm, "Alice", HeyLol),     \* 6:00pm: no space before pm
    DashLine(2, 2, 2024, 13, 30, 1, pm, "Dave", Hi),        \* 13:30 pm: no such hour
    BracketLine(1, 2, 24, 2, 12, 5, 30, AM, "Bob", Hi),     \* [1/2/24, 12:05:30 AM] Bob: Hi
    BracketLine(1, 2, 2024, 4, 10, 5, 0, AM, "Carol", Hi),  \* [1/2/2024, ...]: %y reads 20
    BracketLine(2, 1, 24, 2, 10, 5, 0, <<"M", "M">>, "Dave", Hi), \* [2/1/24, 10:05:00 MM]
    BracketLine(12, 31, 99, 2, 11, 59, 59, PM, "Carol", HeyLol),  \* [12/31/99, 11:59:59 PM]
    TextLine(HeyLol) }

MaxLines == 4

RECURSIVE SeqsUpTo(_, _)
SeqsUpTo(S, n) ==
  IF n = 0 THEN {<<>>}
  ELSE LET shorter == SeqsUpTo(S, n - 1)
       IN shorter \cup {Append(q, x) : q \in {r \in shorter : Len(r) = n - 1}, x \in S}

vars == <<file, parsed, messages, person_a, person_b, idx, scores,
          last_timestamp, last_sender, last_msg, raised, caller, pc, reply, roles,
          uploads, tmpdirs, page, sent, requests, lastCall, user_data, keyboards>>

parseVars == <<file, parsed>>

ParseIdle == file = <<>> /\ parsed = NoCall

callVars == <<messages, person_a, person_b, scores, raised>>
loopVars == <<idx, last_timestamp, last_sender, last_msg>>
passVars == <<callVars, loopVars>>
reportVars == <<caller, pc, reply, roles>>

NoReply == [kind |-> "none", status |-> 0, content |-> None]

LoopIdle ==
  idx = 0 /\ last_timestamp = None /\ last_sender = None /\ last_msg = None

CallIdle ==
  /\ messages = <<>> /\ person_a = "" /\ person_b = ""
  /\ scores = <<>> /\ raised = ""

webVars == <<uploads, tmpdirs, page, sent>>
botVars == <<user_data, keyboards>>
flowVars == <<webVars, botVars, requests, lastCall>>

FlowIdle ==
  /\ uploads = <<>> /\ tmpdirs = <<>> /\ page = <<>> /\ sent = <<>>
  /\ requests = <<>> /\ lastCall = None
  /\ user_data = <<>> /\ keyboards = <<>>

ReportIdle == caller = "" /\ pc = "" /\ reply = NoReply /\ roles = <<>>

----------------------------------------------------------------------------
(* SpecParse: parse_whatsapp_chat on every file of at most MaxLines lines *)

InitParse ==
  /\ file \in SeqsUpTo(LinePool, MaxLines)
  /\ parsed = NoCall
  /\ CallIdle /\ LoopIdle /\ ReportIdle /\ FlowIdle

ParseCall ==
  /\ parsed = NoCall
  /\ parsed' = parse_whatsapp_chat(file)
  /\ UNCHANGED <<file, passVars, reportVars, flowVars>>

NextParse == ParseCall

SpecParse == InitParse /\ [][NextParse]_vars

\* C1: parse_whatsapp_chat either raises or returns a participant list with at
\* least 2 distinct senders; it never returns normally with 0 or 1 participants.
C1_AtLeastTwoOrRaises ==
  parsed # NoCall =>
    \/ parsed.raised = "ValueError"
    \/ parsed.raised = "" /\ Cardinality(parsed.participants) >= 2

\* a file mixing a valid line, a malformed header and a non-matching line whose
\* single remaining sender makes the call raise
C1_Witness ==
  /\ parsed.raised = "ValueError"
  /\ \E i \in 1..Len(file) : ParseLine(file[i]) # <<>>
  /\ \E i \in 1..Len(file) : file[i].shape = "text"
  /\ \E i \in 1..Len(file) :
        (MatchDash(file[i]) \/ MatchBracket(file[i])) /\ ParseLine(file[i]) = <<>>

\* the lines of the file that give a message: a header matched and strptime
\* read its timestamp
KeptLines == {i \in 1..Len(file) : HeaderMatch(file[i]) /\ Strptime(file[i]).ok}

\* the line of the j-th returned message, if the messages keep the file's order
LineOf(j) == CHOOSE i \in KeptLines : Cardinality({k \in KeptLines : k <= i}) = j

\* C11: when parse_whatsapp_chat returns, its participants are exactly the
\* senders of the returned messages; the messages are those of the lines that
\* match a header and whose timestamp parses, one per such line and in the
\* order of the file, so a line that fails either adds nothing.
C11_ParticipantsAreSenders ==
  (parsed # NoCall /\ parsed.raised = "") =>
    /\ parsed.participants = Senders(parsed.messages)
    /\ Len(parsed.messages) = Cardinality(KeptLines)
    /\ \A j \in 1..Len(parsed.messages) :
         \E i \in {LineOf(j)} :
           parsed.messages[j] =
             Message(Strptime(file[i]).timestamp, file[i].sender, file[i].body)

\* a returned parse of a file where a header line with an unreadable timestamp,
\* from a sender who wrote nothing else, and a line with no header lie between
\* the lines of the two messages
C11_Witness ==
  /\ parsed # NoCall /\ parsed.raised = ""
  /\ Len(parsed.messages) = 2
  /\ \E i, j \in 1..Len(file) :
       /\ file[i].shape = "text"
       /\ HeaderMatch(file[j]) /\ ~Strptime(file[j]).ok
       /\ file[j].sender \notin parsed.participants
       /\ \A k \in KeptLines : (k < i /\ k < j) \/ (k > i /\ k > j)
       /\ \E k1, k2 \in KeptLines : k1 < i /\ k2 > j

----------------------------------------------------------------------------
(* Messages the classifier is run on *)

WhyAlways == "Why are you always like this?"
KnowWhy == "do you know why?"
SureLove == "Sure... love you too"

People == {"Alice", "Bob", "Carol"}

\* timestamps 6h+1s, 8h and 14h after the first: the gaps between them fall on
\* both sides of the 6-hour and the 8-hour thresholds
Payloads ==
  { <<0, WhyAlways>>,
    <<6 * HOUR + 1, HeyLol>>,
    <<8 * HOUR, KnowWhy>>,
    <<14 * HOUR, SureLove>> }

MsgPool == {Message(p[1], s, p[2]) : s \in People, p \in Payloads}

MaxMsgs == 3

\* what parse_whatsapp_chat can return: at least two distinct senders
Chats(n) == {m \in SeqsUpTo(MsgPool, n) : Cardinality(Senders(m)) >= 2}

----------------------------------------------------------------------------
(* SpecHeur: fallback_scores called on the messages of a parsed chat with two *)
(* distinct participants of it, one loop iteration per step                    *)

InitHeur ==
  /\ ParseIdle /\ ReportIdle /\ FlowIdle
  /\ messages \in Chats(MaxMsgs)
  /\ person_a \in Senders(messages)
  /\ person_b \in Senders(messages) \ {person_a}
  /\ idx = 1
  /\ scores = ZeroScores(person_a, person_b, RoleKeys)
  /\ last_timestamp = None /\ last_sender = None /\ last_msg = None
  /\ raised = ""

PassState ==
  [scores |-> scores, last_timestamp |-> last_timestamp,
   last_sender |-> last_sender, last_msg |-> last_msg, raised |-> raised]

\* for msg in messages: one iteration, or the KeyError that ends the call
FallbackIter ==
  /\ raised = ""
  /\ idx \in 1..Len(messages)
  /\ \E st \in {LoopBody(PassState, messages[idx])} :
        /\ scores' = st.scores
        /\ last_timestamp' = st.last_timestamp
        /\ last_sender' = st.last_sender
        /\ last_msg' = st.last_msg
        /\ raised' = st.raised
        /\ idx' = IF st.raised = "" THEN idx + 1 ELSE idx
  /\ UNCHANGED <<parseVars, messages, person_a, person_b, reportVars, flowVars>>

NextHeur == FallbackIter

SpecHeur == InitHeur /\ [][NextHeur]_vars

PassDone == raised = "" /\ idx = Len(messages) + 1

\* the count read out of the counters for a sender, 0 when it has no entry
CountOf(sc, s, role) == IF s \in DOMAIN sc THEN sc[s][role] ELSE 0

\* the iterations that ran to their end
Completed == 1..(idx - 1)

\* the iterations that were started: the completed ones and the one that raised
Reached == Completed \cup (IF raised # "" THEN {idx} ELSE {})

Gap(i) == messages[i].timestamp - messages[i - 1].timestamp

\* C5: when the messages hold senders other than the two selected, the pass
\* completes without error and holds counters for every sender seen.
C5_ThirdPartyCounted ==
  (Senders(messages) \ {person_a, person_b} # {}) =>
     /\ raised = ""
     /\ PassDone => Senders(messages) \subseteq DOMAIN scores

\* the snubber triggers of message i as the claim states them: (b) on its own
ClaimedTrigger(t, i) ==
  CASE t = "a" -> i > 1 /\ messages[i - 1].sender # messages[i].sender
                  /\ Gap(i) > 6 * HOUR
    [] t = "b" -> SplitCount(CharsOf(messages[i].message)) < 4
    [] t = "c" -> i > 1 /\ messages[i - 1].sender # messages[i].sender
                  /\ Contains(CharsOf(messages[i - 1].message), <<"?">>)
                  /\ ~ContainsAny(LowerBody(CharsOf(messages[i].message)), YesNoMaybe)

\* the snubber triggers of message i, each only after a message of another sender
NestedTrigger(t, i) ==
  /\ i > 1
  /\ messages[i - 1].sender # messages[i].sender
  /\ ClaimedTrigger(t, i)

SnubberTriggers == {"a", "b", "c"}

C7_StarterIffGap ==
  \A s \in Senders(messages) :
    CountOf(scores, s, "starter") =
      Cardinality({i \in Reached :
                     messages[i].sender = s /\ i > 1 /\ Gap(i) >= 8 * HOUR})

----------------------------------------------------------------------------
(* SpecReport: the report loops of select_identity and bot_callback on the     *)
(* counters of two participants                                                *)

MaxCount == 16

Callers == {"select_identity", "bot_callback"}

InitReport ==
  /\ ParseIdle /\ LoopIdle /\ FlowIdle
  /\ messages = <<>>
  /\ person_a = "Alice" /\ person_b = "Bob"
  /\ \E ca \in 0..MaxCount, cb \in 0..MaxCount :
       scores = [p \in {person_a, person_b} |->
                   [r \in RoleSet(RoleKeys) |-> IF p = person_a THEN ca ELSE cb]]
  /\ raised = ""
  /\ caller \in Callers
  /\ pc = "returned"
  /\ reply = NoReply
  /\ roles = <<>>

\* the body of a report loop: the next role in the display order
ReportStep ==
  /\ pc = "returned"
  /\ Len(roles) < Len(RoleKeys)
  /\ \E entry \in {RoleEntry(scores, person_a, person_b, RoleKeys[Len(roles) + 1])} :
       IF entry.raised # ""
       THEN /\ raised' = entry.raised
            /\ pc' = "report_raised"
            /\ roles' = roles
       ELSE /\ raised' = raised
            /\ roles' = Append(roles, entry)
            /\ pc' = IF Len(roles) + 1 = Len(RoleKeys) THEN "rendered" ELSE pc
  /\ UNCHANGED <<parseVars, loopVars, messages, person_a, person_b, scores,
                 caller, reply, flowVars>>

\* select_identity, lines 333-343: round(pct, 1)
SelectIdentityRole == caller = "select_identity" /\ ReportStep

\* bot_callback, lines 435-439: f"{pct:.1f}"
BotCallbackRole == caller = "bot_callback" /\ ReportStep

NextReport == SelectIdentityRole \/ BotCallbackRole

SpecReport == InitReport /\ [][NextReport]_vars

\* C2: for every role entry built from non-negative counts, the two percentages
\* (in tenths) sum to 100.0 within 0.1 when the combined count is positive, and
\* are both 0 when it is 0, where no error is raised.
C2_PercentagesSum ==
  /\ raised = ""
  /\ \A i \in 1..Len(roles) :
       LET countA == scores[person_a][roles[i].role]
           countB == scores[person_b][roles[i].role]
           sum == roles[i].you + roles[i].them
       IN /\ roles[i].role = RoleKeys[i]
          /\ (countA + countB > 0) => (sum >= 999 /\ sum <= 1001)
          /\ (countA + countB = 0) => (roles[i].you = 0 /\ roles[i].them = 0)

\* a finished report on the counts 1 and 15, whose exact percentages 6.25 and
\* 93.75 are both ties of the rounding
C2_Witness ==
  /\ pc = "rendered"
  /\ scores[person_a]["starter"] = 1 /\ scores[person_b]["starter"] = 15
  /\ roles[1].you = 62 /\ roles[1].them = 938

----------------------------------------------------------------------------
(* SpecScore: calculate_scores and the report loop of its caller               *)

ReplyTwo ==
  <<"Alice:", "starter=5, snubber=3", "Bob:", "Romantic = 2, fault=x, listener=4">>
ReplyInline == <<"Alice: starter=5, joker=1">>
ReplyBadPart == <<"Bob:", "starter=1=2">>
ReplyProse == <<"I cannot rate this chat.">>

Response(status, content) ==
  [kind |-> "response", status |-> status, content |-> content]

\* what requests.post can produce: an exception, or a response with a status
\* and, when its JSON holds choices[0].message.content, the lines of that text
Replies ==
  { [kind |-> "raise", status |-> 0, content |-> None],
    Response(500, None),
    Response(429, Some(ReplyTwo)),
    Response(200, None),
    Response(200, Some(ReplyTwo)),
    Response(200, Some(ReplyInline)),
    Response(200, Some(ReplyBadPart)),
    Response(200, Some(ReplyProse)) }

ScorePayloads == { <<0, WhyAlways>>, <<8 * HOUR, HeyLol>> }

ScorePool == {Message(p[1], s, p[2]) : s \in People, p \in ScorePayloads}

ScoreChats(n) == {m \in SeqsUpTo(ScorePool, n) : Cardinality(Senders(m)) >= 2}

InitScore ==
  /\ ParseIdle /\ LoopIdle /\ FlowIdle
  /\ messages \in ScoreChats(MaxMsgs)
  /\ person_a \in Senders(messages)
  /\ person_b \in Senders(messages) \ {person_a}
  /\ scores = <<>>
  /\ raised = ""
  /\ caller = ""
  /\ pc = "post"
  /\ reply = NoReply
  /\ roles = <<>>

CalcBranchAnyStatus(r) ==
  IF r.kind = "raise" THEN "except"
  ELSE IF r.content = None THEN "except" ELSE "parse_ai"

\* lines 82-95: where control goes once requests.post has ended
CalcBranch(r) ==
  IF r.kind = "raise" THEN "except"
  ELSE IF r.status = 200
       THEN (IF r.content = None THEN "except" ELSE "parse_ai")
       ELSE "else"

\* lines 83-88: requests.post, and the branch on the status and the body
CalcPost ==
  /\ pc = "post"
  /\ \E r \in Replies : reply' = r /\ pc' = CalcBranch(r)
  /\ UNCHANGED <<parseVars, passVars, caller, roles, flowVars>>

\* the call has produced res inside the try block: an exception goes to except
InTry(res) ==
  IF res.raised # ""
  THEN pc' = "except" /\ scores' = scores
  ELSE pc' = "returned" /\ scores' = res.scores

\* line 91: scores = parse_ai_scores(result, person_a, person_b)
CalcParseAI ==
  /\ pc = "parse_ai"
  /\ InTry(parse_ai_scores(reply.content[1], person_a, person_b))
  /\ UNCHANGED <<parseVars, loopVars, messages, person_a, person_b, raised,
                 caller, reply, roles, flowVars>>

\* line 93: scores = fallback_scores(messages, person_a, person_b)
CalcElse ==
  /\ pc = "else"
  /\ InTry(fallback_scores(messages, person_a, person_b))
  /\ UNCHANGED <<parseVars, loopVars, messages, person_a, person_b, raised,
                 caller, reply, roles, flowVars>>

\* line 95: the same call in the except block, whose exception leaves the function
CalcExcept ==
  /\ pc = "except"
  /\ \E res \in {fallback_scores(messages, person_a, person_b)} :
       IF res.raised # ""
       THEN pc' = "calc_raised" /\ raised' = res.raised /\ scores' = scores
       ELSE pc' = "returned" /\ raised' = raised /\ scores' = res.scores
  /\ UNCHANGED <<parseVars, loopVars, messages, person_a, person_b,
                 caller, reply, roles, flowVars>>

\* the caller's report loop follows the call: ReportStep, for either caller
NextScore ==
  \/ CalcPost \/ CalcParseAI \/ CalcElse \/ CalcExcept
  \/ ReportStep

SpecScore == InitScore /\ [][NextScore]_vars

\* the remote call failed: the request raised, the status is not 200, or the
\* body of a 200 lacks the completion text
RemoteFailed ==
  \/ reply.kind = "raise"
  \/ reply.kind = "response" /\ reply.status # 200
  \/ reply.kind = "response" /\ reply.content = None

CalcEnded == pc \in {"returned", "calc_raised", "report_raised", "rendered"}

\* what calculate_scores gave its caller
CalcOutcome ==
  IF pc = "calc_raised"
  THEN [raised |-> raised, scores |-> <<>>]
  ELSE [raised |-> "", scores |-> scores]

\* C3: whenever the remote call fails, calculate_scores ends as fallback_scores
\* called on the same messages and participants ends: with the same counters,
\* or with the same exception.
C3_FailureIsFallback ==
  (CalcEnded /\ RemoteFailed) =>
     CalcOutcome = fallback_scores(messages, person_a, person_b)

\* a non-200 response that carries a completion text has been answered with the
\* counters of the heuristic pass, which are not the ones the text gives
C3_Witness ==
  /\ pc = "returned"
  /\ reply.kind = "response" /\ reply.status # 200 /\ reply.content # None
  /\ scores # parse_ai_scores(reply.content[1], person_a, person_b).scores
  /\ \E p \in DOMAIN scores : \E r \in DOMAIN scores[p] : scores[p][r] > 0

\* C4: the counters calculate_scores returns hold a count for each of the seven
\* role keys for both participants, and the report loop never fails.
C4_SevenKeysAlways ==
  /\ pc \in {"returned", "rendered"} =>
       \A p \in {person_a, person_b} :
         p \in DOMAIN scores /\ RoleSet(RoleKeys) \subseteq DOMAIN scores[p]
  /\ pc # "report_raised"

----------------------------------------------------------------------------
(* What the request handlers call *)

\* lines 82-97 as one call: what calculate_scores gives its caller when
\* requests.post ends with r
calculate_scores(msgs, pa, pb, r) ==
  LET branch == CalcBranch(r)
      inTry == IF branch = "parse_ai"
               THEN parse_ai_scores(r.content[1], pa, pb)
               ELSE fallback_scores(msgs, pa, pb)
  IN IF branch # "except" /\ inTry.raised = ""
     THEN inTry
     ELSE fallback_scores(msgs, pa, pb)

\* the loop over the seven roles, which reads scores[you][role] and
\* scores[them][role]: does it raise KeyError
ReportRaises(sc, you, them) ==
  \E i \in 1..Len(RoleKeys) : RoleEntry(sc, you, them, RoleKeys[i]).raised # ""

\* classification and report of one request: "rendered", or the exception
Analyse(msgs, you, them, r) ==
  LET res == calculate_scores(msgs, you, them, r)
  IN IF res.raised # "" THEN res.raised
     ELSE IF ReportRaises(res.scores, you, them) THEN "KeyError"
     ELSE "rendered"

Call(msgs, you, them) == [messages |-> msgs, you |-> you, them |-> them]

----------------------------------------------------------------------------
(* The files users send *)

ChatAB ==
  << DashLine(1, 2, 2024, 10, 0, 1, am, "Alice", WhyAlways),
     DashLine(1, 2, 2024, 10, 5, 1, pm, "Bob", HeyLol) >>

ChatBC ==
  << DashLine(3, 2, 2024, 9, 0, 1, am, "Bob", Hi),
     DashLine(3, 2, 2024, 9, 30, 1, am, "Carol", KnowWhy) >>

\* one sender only: parse_whatsapp_chat raises ValueError
ChatSolo ==
  << DashLine(1, 2, 2024, 10, 0, 1, am, "Alice", Hi), TextLine(HeyLol) >>

\* two senders in the bracket format, whose years have two digits
ChatBracket ==
  << BracketLine(2, 1, 24, 2, 10, 0, 0, AM, "Alice", Hi),
     BracketLine(2, 1, 24, 2, 10, 5, 0, PM, "Bob", HeyLol) >>

Notes == << TextLine(Hi) >>

ChatFiles == {ChatAB, ChatBC, ChatSolo, ChatBracket, Notes}

\* str.endswith on the names users give their files
Extension(name) ==
  CASE name \in {"chat.txt", "mine.txt"} -> ".txt"
    [] name = "export.zip" -> ".zip"
    [] OTHER -> ".pdf"

TxtNames == {"chat.txt", "mine.txt"}

FileNames == TxtNames \cup {"export.zip", "notes.pdf"}

\* a posted file: its name and the .txt it is or holds; an archive may hold none
Posted ==
  {[filename |-> n, txt |-> Some(c)] : n \in FileNames, c \in ChatFiles}
    \cup {[filename |-> "export.zip", txt |-> None]}

----------------------------------------------------------------------------
(* The web flow: upload and select_identity, for two users of one server *)

Users == {"u1", "u2"}

MaxRequests == 2

Index(flashed) ==
  [kind |-> "index", flash |-> flashed, participants |-> {}, file_path |-> <<>>]

\* select_identity.html, with the path in a hidden field of its form
SelectPage(participants, file_path) ==
  [kind |-> "select", flash |-> "", participants |-> participants,
   file_path |-> file_path]

ResultsPage == [kind |-> "results", flash |-> "", participants |-> {}, file_path |-> <<>>]

\* an exception no handler catches: the server answers 500
ErrorPage(exc) == [kind |-> "error", flash |-> exc, participants |-> {}, file_path |-> <<>>]

\* the .txt at a path, None when there is no such file
ReadFile(up, td, file_path) ==
  IF file_path[1] = "uploads" THEN up[file_path[2]] ELSE td[file_path[2]].txt

\* lines 241-261: where the posted file is stored, and the path of the .txt
SaveUpload(up, td, f) ==
  IF Extension(f.filename) = ".zip"
  THEN [uploads |-> up,
        tmpdirs |-> Append(td, [zip |-> TRUE, txt |-> f.txt]),
        file_path |-> IF f.txt = None THEN None ELSE Some(<<"tmp", Len(td) + 1>>)]
  ELSE [uploads |-> [up EXCEPT ![f.filename] = f.txt],
        tmpdirs |-> td,
        file_path |-> Some(<<"uploads", f.filename>>)]

\* re.search(r'\d{1,2}/\d{1,2}/\d{4}, \d{1,2}:\d{2}', content) on one line; the
\* files here are shorter than the 1024 characters that are read
DatePattern(l) ==
  /\ l.shape \in {"dash", "bracket"}
  /\ l.n1 \in 0..99 /\ l.n2 \in 0..99
  /\ l.ydigits = 4
  /\ l.hour \in 0..99 /\ l.minute \in 0..99

\* lines 254-282: the page upload answers with once the file is stored
UploadAnswer(stored) ==
  IF stored.file_path = None THEN Index("No .txt file found in ZIP.")
  ELSE LET lines == ReadFile(stored.uploads, stored.tmpdirs, stored.file_path[1])[1]
           p == parse_whatsapp_chat(lines)
       IN IF ~(\E i \in 1..Len(lines) : DatePattern(lines[i]))
          THEN Index("Invalid file format. Must be WhatsApp export.")
          ELSE IF p.raised # "" THEN Index(p.raised)
          ELSE IF p.messages = <<>> THEN Index("No valid messages found in file.")
          ELSE SelectPage(p.participants, stored.file_path[1])

\* os.remove(file_path): the file goes, the directory it was in stays
RemoveFile(up, td, file_path) ==
  IF file_path[1] = "uploads"
  THEN [uploads |-> [up EXCEPT ![file_path[2]] = None], tmpdirs |-> td]
  ELSE [uploads |-> up, tmpdirs |-> [td EXCEPT ![file_path[2]].txt = None]]

InitWeb ==
  /\ ParseIdle /\ CallIdle /\ LoopIdle /\ ReportIdle
  /\ uploads = [n \in TxtNames |-> None]
  /\ tmpdirs = <<>>
  /\ page = [u \in Users |-> Index("")]
  /\ sent = [u \in Users |-> None]
  /\ requests = [u \in Users |-> 0]
  /\ lastCall = None
  /\ user_data = <<>> /\ keyboards = <<>>

\* POST /upload, lines 223-282
Upload(u) ==
  /\ requests[u] < MaxRequests
  /\ requests' = [requests EXCEPT ![u] = @ + 1]
  /\ \E f \in Posted :
       IF Extension(f.filename) \notin {".txt", ".zip"}
       THEN /\ page' = [page EXCEPT ![u] = Index("Only .txt or .zip files are allowed")]
            /\ UNCHANGED <<uploads, tmpdirs, sent>>
       ELSE \E stored \in {SaveUpload(uploads, tmpdirs, f)} :
              /\ uploads' = stored.uploads
              /\ tmpdirs' = stored.tmpdirs
              /\ sent' = [sent EXCEPT ![u] = f.txt]
              /\ page' = [page EXCEPT ![u] = UploadAnswer(stored)]
  /\ UNCHANGED <<parseVars, passVars, reportVars, botVars, lastCall>>

\* POST /select_identity, lines 320-353, from the form of the page the user has
SelectIdentity(u) ==
  /\ page[u].kind = "select"
  /\ requests[u] < MaxRequests
  /\ requests' = [requests EXCEPT ![u] = @ + 1]
  /\ \E file_path \in {page[u].file_path} :
     \E f \in {ReadFile(uploads, tmpdirs, file_path)} :
       IF f = None
       THEN /\ page' = [page EXCEPT ![u] = ErrorPage("FileNotFoundError")]
            /\ UNCHANGED <<uploads, tmpdirs, lastCall>>
       ELSE \E p \in {parse_whatsapp_chat(f[1])} :
         IF p.raised # ""
         THEN /\ page' = [page EXCEPT ![u] = ErrorPage(p.raised)]
              /\ UNCHANGED <<uploads, tmpdirs, lastCall>>
         ELSE \E you \in People, them \in People :
           IF you \notin p.participants \/ them \notin p.participants \/ you = them
           THEN /\ page' = [page EXCEPT ![u] = Index("Invalid selection.")]
                /\ UNCHANGED <<uploads, tmpdirs, lastCall>>
           ELSE /\ lastCall' = Some(Call(p.messages, you, them))
                /\ \E outcome \in {Analyse(p.messages, you, them, r) : r \in Replies} :
                     IF outcome # "rendered"
                     THEN /\ page' = [page EXCEPT ![u] = ErrorPage(outcome)]
                          /\ UNCHANGED <<uploads, tmpdirs>>
                     ELSE \E disk \in {RemoveFile(uploads, tmpdirs, file_path)} :
                            /\ page' = [page EXCEPT ![u] = ResultsPage]
                            /\ uploads' = disk.uploads
                            /\ tmpdirs' = disk.tmpdirs
  /\ UNCHANGED <<parseVars, passVars, reportVars, botVars, sent>>

NextWeb == \E u \in Users : Upload(u) \/ SelectIdentity(u)

SpecWeb == InitWeb /\ [][NextWeb]_vars

\* the paths of what the requests have left on disk: files and directories
OnDisk ==
  {<<"uploads", n>> : n \in {m \in TxtNames : uploads[m] # None}}
    \cup {<<"tmp", k>> : k \in 1..Len(tmpdirs)}

\* the user has the selection form of an upload and has not answered it yet
Pending(u) == page[u].kind = "select"

\* C8: once the requests of an upload have completed, by whichever exit, the
\* uploaded file and the directory it was extracted into are gone: whatever is
\* on disk belongs to an upload whose selection form is still unanswered.
C8_NothingLeftOnDisk ==
  \A path \in OnDisk : \E u \in Users : Pending(u) /\ page[u].file_path = path

\* C9: the file a user's unanswered selection form names is there and holds
\* what this user uploaded, whatever the other user has requested meanwhile.
C9_PendingFileIsOwn ==
  \A u \in Users :
    Pending(u) => ReadFile(uploads, tmpdirs, page[u].file_path) = sent[u]

----------------------------------------------------------------------------
(* The bot flow: bot_handle_zip and bot_callback, in one conversation *)

MaxUploads == 2

Chat == "chat"

BotFiles == {ChatAB, ChatBC, ChatSolo, Notes}

BotPosted ==
  {[filename |-> n, txt |-> Some(c)] : n \in {"export.zip", "chat.txt"}, c \in BotFiles}
    \cup {[filename |-> "export.zip", txt |-> None]}

\* an inline keyboard: the prefix of its callback data and the names on its buttons
Keyboard(kind, options) == [kind |-> kind, options |-> options]

\* the message edited into the report: no buttons are left
ReportText == Keyboard("report", {})

InitBot ==
  /\ ParseIdle /\ CallIdle /\ LoopIdle /\ ReportIdle
  /\ uploads = <<>> /\ tmpdirs = <<>> /\ page = <<>> /\ sent = <<>>
  /\ requests = [c \in {Chat} |-> 0]
  /\ lastCall = None
  /\ user_data = [k \in {} |-> None]
  /\ keyboards = <<>>

\* lines 362-402: a document arrives
BotHandleZip ==
  /\ requests[Chat] < MaxUploads
  /\ requests' = [requests EXCEPT ![Chat] = @ + 1]
  /\ \E f \in BotPosted :
       IF Extension(f.filename) # ".zip" \/ f.txt = None
       THEN UNCHANGED <<user_data, keyboards>>
       ELSE \E p \in {parse_whatsapp_chat(f.txt[1])} :
              IF p.raised # ""
              THEN UNCHANGED <<user_data, keyboards>>
              ELSE /\ user_data' = [k \in DOMAIN user_data \cup {"messages", "participants"} |->
                                      IF k = "messages" THEN p.messages
                                      ELSE IF k = "participants" THEN p.participants
                                      ELSE user_data[k]]
                   /\ keyboards' = Append(keyboards, Keyboard("you", p.participants))
  /\ UNCHANGED <<parseVars, passVars, reportVars, webVars, lastCall>>

\* lines 404-440: a button of the keyboard of one of the messages is pressed
BotCallback ==
  /\ \E k \in 1..Len(keyboards), name \in People :
       /\ name \in keyboards[k].options
       /\ IF keyboards[k].kind = "you"
          THEN /\ user_data' = [key \in DOMAIN user_data \cup {"you"} |->
                                  IF key = "you" THEN name ELSE user_data[key]]
               /\ keyboards' = [keyboards EXCEPT ![k] =
                                  Keyboard("them", user_data["participants"] \ {name})]
               /\ UNCHANGED lastCall
          ELSE /\ "you" \in DOMAIN user_data
               /\ lastCall' = Some(Call(user_data["messages"], user_data["you"], name))
               /\ \E outcome \in {Analyse(user_data["messages"], user_data["you"], name, r) :
                                     r \in Replies} :
                    IF outcome = "rendered"
                    THEN keyboards' = [keyboards EXCEPT ![k] = ReportText]
                    ELSE UNCHANGED keyboards
               /\ UNCHANGED user_data
  /\ UNCHANGED <<parseVars, passVars, reportVars, webVars, requests>>

NextBot == BotHandleZip \/ BotCallback

SpecBot == InitBot /\ [][NextBot]_vars

\* C10: calculate_scores is only ever called with two distinct names that are
\* both senders of the messages it is given.
C10_CalledWithTwoParticipants ==
  lastCall # None =>
    /\ lastCall[1].you # lastCall[1].them
    /\ {lastCall[1].you, lastCall[1].them} \subseteq Senders(lastCall[1].messages)

====
